---------------------------- MODULE Spec2Model ----------------------------
(***************************************************************************)
(* Model of nds-interp: the Nintendo DS slope interpolator (slope.h), the  *)
(* capture parser and comparison harness (main.cpp) and the on-device      *)
(* capture generator (data/src/source/main.cpp).                           *)
(***************************************************************************)
EXTENDS Integers, Sequences, FiniteSets, TLC

VARIABLES
    \* Slope and its callers
    in_x0, in_y0, in_x1, in_y1,  \* arguments handed to Slope::Setup
    slope,                       \* the Slope object (m_x0, m_y0, m_dx, m_negative, m_xMajor)
    pc,                          \* position of the running function
    y,                           \* scanline of the last query / loop variable of testSlope
    startX, endX,                \* locals holding FracXStart(y), FracXEnd(y)
    inRange,                     \* every arithmetic result so far fits in 32 signed bits
    divisors,                    \* the divisors Setup divided by
    \* testSlope (main.cpp)
    call,                        \* its arguments: type of the capture, testX, testY, x0, y0, x1, y1
    dataKind,                    \* what the capture table holds
    body,                        \* locals of the loop body: startX, endX, startScrX, endScrX
    mismatch,                    \* the bool &mismatch shared by one testSlopes run
    banners, reports,            \* "found mismatch" banners and mismatch lines printed
    scanned,                     \* scanlines compared against the capture so far
    \* generate (data/src/source/main.cpp)
    gen,                         \* TEST_TYPE, minX, maxX, minY, maxY and what the screen shows
    gx, gy, gprevX, gprevY,      \* its loop variables x, y, prevX, prevY
    block,                       \* the span records countAndWrite wrote for the last block
    layout,                      \* per record written: its offset, coordinate bytes and span count
    \* the capture file
    file,                        \* its bytes
    fpc,                         \* generate's and readFile's position
    \* readFile (main.cpp)
    pos, fail,                   \* the stream: read position, failbit
    pData,                       \* type, minX, maxX, minY, maxY as read
    coords,                      \* u8 coords[2]
    rx, ry, prevX, prevY,        \* its loop variables x, y, prevX, prevY
    recNo, recOff,               \* records read so far, offset of the last record read
    lastBlock,                   \* the table entry and scanlines the last block was stored in
    lines,                       \* pData->lines, the table of the capture read or tested
    \* testSlopes (main.cpp)
    visited,                     \* the sweep points of the calls of the run that are followed, in order
    okays,                       \* "OK!" lines printed
    \* main (main.cpp)
    mainpc,                      \* its position: loading the captures, testing them, returned
    slot,                        \* which of dataTL, dataTR, dataBL, dataBR it is at (1..4)
    captures,                    \* the four pointers readFile returned
    absent                       \* the paths reported as "does not exist or is not a file"

slopeVars == <<in_x0, in_y0, in_x1, in_y1, slope, pc, y, startX, endX, inRange, divisors>>
harnessVars == <<call, dataKind, body, mismatch, banners, reports, scanned>>
genVars == <<gen, gx, gy, gprevX, gprevY, block, layout>>
readVars == <<pos, fail, pData, coords, rx, ry, prevX, prevY, recNo, recOff, lastBlock, lines>>
fileVars == <<genVars, file, fpc, readVars>>
runVars == <<visited, okays>>
mainVars == <<mainpc, slot, captures, absent>>
vars == <<slopeVars, harnessVars, fileVars, runVars, mainVars>>

---------------------------------------------------------------------------
(* Screen grid and fixed point constants                                   *)

WIDTH == 256
HEIGHT == 192

kFracBits == 18

RECURSIVE Pow2(_)
Pow2(n) == IF n = 0 THEN 1 ELSE 2 * Pow2(n - 1)

kOne == Pow2(kFracBits)
kBias == kOne \div 2
\* kMask is ~0u << (kFracBits / 2); kLowBits is its complement ~kMask.
kLowBits == Pow2(kFracBits \div 2) - 1

---------------------------------------------------------------------------
(* 32-bit two's complement arithmetic (int32_t / uint32_t share the bit    *)
(* pattern; the results are read back as int32_t).                         *)

MaxI32 == 2147483647
MinI32 == (-MaxI32) - 1

AddFits(a, b) == IF b >= 0 THEN a <= MaxI32 - b ELSE a >= MinI32 - b
SubFits(a, b) == IF b >= 0 THEN a >= MinI32 + b ELSE a <= MaxI32 + b

Add32(a, b) ==
    IF AddFits(a, b) THEN a + b
    ELSE IF b > 0 THEN ((a - MaxI32) - 1) + ((b - MaxI32) - 1)
    ELSE ((a + MaxI32) + 1) + ((b + MaxI32) + 1)

Sub32(a, b) ==
    IF SubFits(a, b) THEN a - b
    ELSE IF b > 0 THEN ((a + MaxI32) + 1) + ((MaxI32 - b) + 1)
    ELSE ((a - MaxI32) - 1) - ((b + MaxI32) + 1)

Abs(a) == IF a < 0 THEN -a ELSE a

\* floor(2^31 / q) for 1 <= q <= MaxI32, capped at MaxI32 (q = 1)
Pow31Div(q) ==
    IF q = 1 THEN MaxI32
    ELSE IF MaxI32 % q = q - 1 THEN (MaxI32 \div q) + 1 ELSE MaxI32 \div q

MulFits(a, b) ==
    IF a = 0 \/ b = 0 THEN TRUE
    ELSE IF a = MinI32 THEN b = 1
    ELSE IF b = MinI32 THEN a = 1
    ELSE IF (a < 0) = (b < 0) THEN Abs(a) <= MaxI32 \div Abs(b)
    ELSE Abs(a) <= Pow31Div(Abs(b))

\* The int32_t whose bit pattern has the 16-bit halves hi and lo.
Wrap16(hi, lo) == (IF hi >= 32768 THEN hi - 65536 ELSE hi) * 65536 + lo

\* The low 32 bits of a * c for a byte c, and of v * 256.
MulByte(a, c) ==
    Wrap16((((a \div 65536) % 65536) * c + ((a % 65536) * c) \div 65536) % 65536,
           ((a % 65536) * c) % 65536)
Shl8(v) == Wrap16((v \div 256) % 65536, (v % 256) * 256)

\* The low 32 bits of a * b, by multiply and add over the n low bytes of b.
RECURSIVE MulWrap(_, _, _)
MulWrap(a, b, n) ==
    IF n = 0 THEN 0
    ELSE Add32(MulByte(a, b % 256), Shl8(MulWrap(a, b \div 256, n - 1)))

Mul32(a, b) == IF MulFits(a, b) THEN a * b ELSE MulWrap(a, b, 4)

ShlFits(a, n) == MulFits(a, Pow2(n))
Shl32(a, n) == Mul32(a, Pow2(n))
\* arithmetic shift right
Sar32(a, n) == a \div Pow2(n)

\* kOne / dy: dy is converted to uint32_t, so a negative dy is a huge divisor.
\* A zero divisor traps in the program; the model records it in "divisors".
UDivOne(dy) == IF dy <= 0 THEN 0 ELSE kOne \div dy

\* v & kMask, v & ~kMask
AndMask(v) == v - (v % (kLowBits + 1))
AndNotMask(v) == v % (kLowBits + 1)

---------------------------------------------------------------------------
(* Slope (slope.h)                                                         *)

\* Setup, "Always interpolate top to bottom": the endpoints after the swap.
TopToBottomYOnly(x0, y0, x1, y1) ==
    IF y1 < y0 THEN <<x0, y1, x1, y0>> ELSE <<x0, y0, x1, y1>>

TopToBottom(x0, y0, x1, y1) ==
    IF y1 < y0 THEN <<x1, y1, x0, y0>> ELSE <<x0, y0, x1, y1>>

\* Setup, "Precompute bias for X-major or diagonal slopes": the condition.
NeedsBiasXMajorOnly(xMajor, dx, dy) == xMajor

NeedsBias(xMajor, dx, dy) == xMajor \/ dx = dy

\* Setup, "Compute X displacement per scanline": the factor m_dx is multiplied by.
DxFactor(dy) == IF dy # 0 THEN UDivOne(dy) ELSE kOne

\* The divisors of that computation.
DxDivisorsUnguarded(dy) == {dy}

DxDivisors(dy) == IF dy # 0 THEN {dy} ELSE {}

\* m_dx = dx; m_dx *= factor
ScaleDxFolded(dx, dy) == IF dy # 0 THEN Mul32(dx, kOne) \div dy ELSE Mul32(dx, kOne)

ScaleDx(dx, dy) == Mul32(dx, DxFactor(dy))

\* Slope::Setup, with every intermediate value: the configured object, whether
\* each arithmetic result fitted in an int32_t, and the divisors used.
SetupSteps(x0, y0, x1, y1) ==
    LET top == TopToBottom(x0, y0, x1, y1)
        ax0 == top[1]
        ay0 == top[2]
        ax1 == top[3]
        ay1 == top[4]
        ref == Shl32(ax0, kFracBits)
        negative == ax1 < ax0
        decr == IF negative THEN Sub32(ref, 1) ELSE ref
        bx0 == IF negative THEN ax1 ELSE ax0
        bx1 == IF negative THEN ax0 ELSE ax1
        dx == Sub32(bx1, bx0)
        dy == Sub32(ay1, ay0)
        xMajor == dx > dy
        biased == IF NeedsBias(xMajor, dx, dy)
                  THEN (IF negative THEN Sub32(decr, kBias) ELSE Add32(decr, kBias))
                  ELSE decr
    IN  [obj |-> [m_x0 |-> biased, m_y0 |-> ay0, m_dx |-> ScaleDx(dx, dy),
                  m_negative |-> negative, m_xMajor |-> xMajor],
         fits |-> /\ ShlFits(ax0, kFracBits)
                  /\ (negative => SubFits(ref, 1))
                  /\ SubFits(bx1, bx0)
                  /\ SubFits(ay1, ay0)
                  /\ NeedsBias(xMajor, dx, dy) =>
                        (IF negative THEN SubFits(decr, kBias) ELSE AddFits(decr, kBias))
                  /\ MulFits(dx, DxFactor(dy)),
         divs |-> DxDivisors(dy)]

Setup(x0, y0, x1, y1) == SetupSteps(x0, y0, x1, y1).obj

\* FracXStart: displacement = (y - m_y0) * m_dx, as a value and whether it fitted.
DisplacementNoOffset(s, sy) ==
    [val |-> Mul32(sy, s.m_dx), fits |-> MulFits(sy, s.m_dx)]

Displacement(s, sy) ==
    [val |-> Mul32(Sub32(sy, s.m_y0), s.m_dx),
     fits |-> SubFits(sy, s.m_y0) /\ MulFits(Sub32(sy, s.m_y0), s.m_dx)]

FracXStartSteps(s, sy) ==
    LET d == Displacement(s, sy)
    IN  IF s.m_negative
        THEN [val |-> Sub32(s.m_x0, d.val), fits |-> d.fits /\ SubFits(s.m_x0, d.val)]
        ELSE [val |-> Add32(s.m_x0, d.val), fits |-> d.fits /\ AddFits(s.m_x0, d.val)]

FracXStart(s, sy) == FracXStartSteps(s, sy).val

\* Variants of the positive X-major end: without the mask, and without the
\* step back by one column.
SpanEndUnmasked(result, m_dx) ==
    [val |-> Sub32(Add32(result, m_dx), kOne),
     fits |-> AddFits(result, m_dx) /\ SubFits(Add32(result, m_dx), kOne)]

SpanEndWholeStep(result, m_dx) ==
    [val |-> Add32(AndMask(result), m_dx), fits |-> AddFits(AndMask(result), m_dx)]

\* FracXEnd, positive X-major: (result & kMask) + m_dx - kOne
SpanEndPositive(result, m_dx) ==
    [val |-> Sub32(Add32(AndMask(result), m_dx), kOne),
     fits |-> AddFits(AndMask(result), m_dx) /\ SubFits(Add32(AndMask(result), m_dx), kOne)]

\* FracXEnd, negative X-major: result + (~kMask - (result & ~kMask)) - m_dx + kOne
SpanEndNegativeNoCeil(result, m_dx) ==
    [val |-> Add32(Sub32(result, m_dx), kOne),
     fits |-> SubFits(result, m_dx) /\ AddFits(Sub32(result, m_dx), kOne)]

SpanEndNegative(result, m_dx) ==
    LET up == Sub32(kLowBits, AndNotMask(result))
        ceil == Add32(result, up)
    IN  [val |-> Add32(Sub32(ceil, m_dx), kOne),
         fits |-> /\ AddFits(result, up)
                  /\ SubFits(ceil, m_dx)
                  /\ AddFits(Sub32(ceil, m_dx), kOne)]

FracXEndSameRule(s, sy) ==
    LET st == FracXStartSteps(s, sy)
        en == SpanEndPositive(st.val, s.m_dx)
    IN  IF s.m_xMajor THEN [val |-> en.val, fits |-> st.fits /\ en.fits] ELSE st

FracXEndSteps(s, sy) ==
    LET st == FracXStartSteps(s, sy)
        en == IF s.m_negative THEN SpanEndNegative(st.val, s.m_dx)
              ELSE SpanEndPositive(st.val, s.m_dx)
    IN  IF s.m_xMajor THEN [val |-> en.val, fits |-> st.fits /\ en.fits] ELSE st

FracXEnd(s, sy) == FracXEndSteps(s, sy).val

XStart(s, sy) == Sar32(FracXStart(s, sy), kFracBits)
XEnd(s, sy) == Sar32(FracXEnd(s, sy), kFracBits)
DX(s) == s.m_dx
IsXMajor(s) == s.m_xMajor
IsNegative(s) == s.m_negative

---------------------------------------------------------------------------
(* Driver of the Slope interface: Setup once, then query the scanlines of  *)
(* the edge from top to bottom.                                            *)

NearX == 3
NearY == 3
MirrorN == 6

Min(a, b) == IF a < b THEN a ELSE b
Max(a, b) == IF a < b THEN b ELSE a

\* Screen coordinates near both ends of each axis.
GridXs == (0 .. NearX) \cup ((WIDTH - NearX) .. WIDTH)
GridYs == (0 .. NearY) \cup ((HEIGHT - NearY) .. HEIGHT)
GridEdges == { e \in GridXs \X GridYs \X GridXs \X GridYs : ~(e[1] = e[3] /\ e[2] = e[4]) }

\* The edges named by the specification's scenarios SC1 .. SC5.
ScenarioEdges ==
    { <<0, 0, 64, 64>>, <<0, 0, 69, 49>>, <<69, 49, 0, 0>>, <<0, 0, 10, 100>>,
      <<256, 0, 187, 49>>, <<187, 49, 256, 0>>, <<10, 50, 200, 50>>, <<200, 50, 10, 50>>,
      <<10, 50, 200, 51>>, <<0, 0, 70, 66>>, <<0, 0, 71, 49>>, <<256, 192, 0, 0>> }

\* S+ = (0,0)-(n,n-k) and S- = (n,0)-(0,n-k).
MirrorNs == (1 .. MirrorN) \cup {69, WIDTH}
MirrorPairs == { p \in MirrorNs \X (1 .. WIDTH) : p[2] < p[1] }
MirrorEdges ==
    { <<0, 0, p[1], p[1] - p[2]>> : p \in MirrorPairs }
        \cup { <<p[1], 0, 0, p[1] - p[2]>> : p \in MirrorPairs }

DiagonalEdges == { <<0, 0, n, n>> : n \in 1 .. HEIGHT }

Edges == GridEdges \cup ScenarioEdges \cup MirrorEdges \cup DiagonalEdges

\* A Slope object before Setup: its members are not initialised and are never
\* read in that state.
NoSlope == [m_x0 |-> 0, m_y0 |-> 0, m_dx |-> 0, m_negative |-> FALSE, m_xMajor |-> FALSE]

\* The locals of testSlope's loop body before the first iteration.
NoBody == [startX |-> 0, endX |-> 0, startScrX |-> 0, endScrX |-> 0, fits |-> TRUE]

NoCall == [type |-> 0, testX |-> 0, testY |-> 0, x0 |-> 0, y0 |-> 0, x1 |-> 0, y1 |-> 0]

\* The harness is not running.
HarnessIdle ==
    /\ call = NoCall
    /\ dataKind = "blank"
    /\ body = NoBody
    /\ mismatch = FALSE
    /\ banners = 0
    /\ reports = 0
    /\ scanned = {}

NoGen == [type |-> 0, minX |-> 0, maxX |-> 0, minY |-> 0, maxY |-> 0, frame |-> "blank"]
NoData == [type |-> 0, minX |-> 0, maxX |-> 0, minY |-> 0, maxY |-> 0]
NoBlock == [row |-> 0, col |-> 0, from |-> 0, to |-> -1, spans |-> <<>>]

\* A zero-initialised Span, and the table of a fresh Data: no entry was stored
\* in, every span of it is the zero span.
NoSpan == [exists |-> FALSE, start |-> 0, end |-> 0]
NoTable == [e \in {} |-> NoSpan]

\* table[row][col].spans[checkY]
SpanAt(table, row, col, checkY) ==
    IF <<row, col>> \in DOMAIN table /\ checkY \in DOMAIN table[<<row, col>>]
    THEN table[<<row, col>>][checkY]
    ELSE NoSpan

\* The table after the spans of block b were stored in the scanlines b.from ..
\* b.to of the entry [b.row][b.col].
StoreBlock(table, b) ==
    [e \in DOMAIN table \cup {<<b.row, b.col>>} |->
        IF e = <<b.row, b.col>>
        THEN [c \in (IF e \in DOMAIN table THEN DOMAIN table[e] ELSE {}) \cup (b.from .. b.to) |->
                 IF b.from <= c /\ c <= b.to THEN b.spans[c - b.from + 1] ELSE table[e][c]]
        ELSE table[e]]

\* main(): data/TL.bin, data/TR.bin, data/BL.bin, data/BR.bin, in this order.
Paths == 1 .. 4

\* A null pointer, and the four pointers before the first readFile call.
NoCapture == [loaded |-> FALSE, data |-> NoData, table |-> NoTable]
NoCaptures == [p \in Paths |-> NoCapture]

\* No capture file is being written or read.
FileIdle ==
    /\ gen = NoGen
    /\ gx = 0 /\ gy = 0 /\ gprevX = 0 /\ gprevY = 0
    /\ block = <<>>
    /\ layout = <<>>
    /\ file = <<>>
    /\ fpc = "idle"
    /\ pos = 0 /\ fail = FALSE
    /\ pData = NoData
    /\ coords = <<0, 0>>
    /\ rx = 0 /\ ry = 0 /\ prevX = 0 /\ prevY = 0
    /\ recNo = 0 /\ recOff = 0
    /\ lastBlock = NoBlock
    /\ lines = NoTable

\* No testSlopes run is in progress.
RunIdle ==
    /\ visited = <<>>
    /\ okays = 0

\* main() is not running.
MainIdle ==
    /\ mainpc = "idle"
    /\ slot = 0
    /\ captures = NoCaptures
    /\ absent = {}

Init ==
    /\ \E e \in Edges : in_x0 = e[1] /\ in_y0 = e[2] /\ in_x1 = e[3] /\ in_y1 = e[4]
    /\ slope = NoSlope
    /\ pc = "new"
    /\ y = 0
    /\ startX = 0
    /\ endX = 0
    /\ inRange = TRUE
    /\ divisors = {}
    /\ HarnessIdle
    /\ FileIdle
    /\ RunIdle
    /\ MainIdle

DoSetup ==
    /\ pc = "new"
    /\ LET set == SetupSteps(in_x0, in_y0, in_x1, in_y1)
       IN  /\ slope' = set.obj
           /\ inRange' = set.fits
           /\ divisors' = set.divs
    /\ pc' = "set"
    /\ UNCHANGED <<in_x0, in_y0, in_x1, in_y1, y, startX, endX>>
    /\ UNCHANGED <<harnessVars, fileVars, runVars, mainVars>>

\* FracXStart(y) and FracXEnd(y) for the next scanline between the two Y
\* coordinates, both included.
Query ==
    /\ pc \in {"set", "query"}
    /\ LET ny == IF pc = "set" THEN Min(in_y0, in_y1) ELSE y + 1
           st == FracXStartSteps(slope, ny)
           en == FracXEndSteps(slope, ny)
       IN  /\ ny <= Max(in_y0, in_y1)
           /\ y' = ny
           /\ startX' = st.val
           /\ endX' = en.val
           /\ inRange' = (inRange /\ st.fits /\ en.fits)
    /\ pc' = "query"
    /\ UNCHANGED <<in_x0, in_y0, in_x1, in_y1, slope, divisors>>
    /\ UNCHANGED <<harnessVars, fileVars, runVars, mainVars>>

Next == DoSetup \/ Query

Spec == Init /\ [][Next]_vars

---------------------------------------------------------------------------
(* testSlope (main.cpp): one edge against the capture table                *)

\* An anchor at the top of the screen for every type (a variant used to test
\* that the anchors agree with the scanline ranges of the capture).
AnchorYTop(type) == 0

\* test(): the anchor corner testSlopes is given for each capture type.
AnchorX(type) == IF type \in {1, 3} THEN WIDTH ELSE 0
AnchorY(type) == IF type \in {2, 3} THEN HEIGHT ELSE 0

\* testSlope, "Always rasterize top to bottom".
RasterTopToBottom(x0, y0, x1, y1) ==
    IF y0 > y1 THEN <<x1, y1, x0, y0>> ELSE <<x0, y0, x1, y1>>

\* testSlope, "Y0 coinciding with Y1 is equivalent to Y0 and Y1 being 1 pixel apart".
BumpHorizontalNever(y0, y1) == y1

BumpHorizontal(y0, y1) == IF y0 = y1 THEN y1 + 1 ELSE y1

\* The four locals without the swap for negative slopes (a variant used to
\* test the order of the compared columns).
LoopBodyNoSwap(s, sy) ==
    LET st == FracXStartSteps(s, sy)
        en == FracXEndSteps(s, sy)
    IN  [startX |-> st.val,
         endX |-> en.val,
         startScrX |-> Sar32(st.val, kFracBits),
         endScrX |-> Sar32(en.val, kFracBits),
         fits |-> st.fits /\ en.fits]

\* The four locals of the loop body, after the swap for negative slopes.
\* (XStart and XEnd are the two fractional values shifted right by kFracBits.)
LoopBody(s, sy) ==
    LET st == FracXStartSteps(s, sy)
        en == FracXEndSteps(s, sy)
        neg == IsNegative(s)
    IN  [startX |-> IF neg THEN en.val ELSE st.val,
         endX |-> IF neg THEN st.val ELSE en.val,
         startScrX |-> Sar32(IF neg THEN en.val ELSE st.val, kFracBits),
         endScrX |-> Sar32(IF neg THEN st.val ELSE en.val, kFracBits),
         fits |-> st.fits /\ en.fits]

\* The table testSlope is given when it is called on its own: every entry
\* zero-initialised ("blank"), the span the hardware drew, clipped to the screen
\* as the capture's 8-bit columns ("hardware"), or a span that starts one column
\* later ("shifted"). Called by main(), it is given the table readFile loaded
\* (dataKind = "loaded").
DataKinds == {"blank", "hardware", "shifted"}

Captured(kind, b) ==
    LET first == Max(0, Min(WIDTH - 1, b.startScrX))
        last == Max(0, Min(WIDTH - 1, b.endScrX))
    IN  CASE kind = "blank" -> [exists |-> FALSE, start |-> 0, end |-> 0]
          [] kind = "hardware" -> [exists |-> TRUE, start |-> first, end |-> last]
          [] kind = "shifted" -> [exists |-> TRUE, start |-> (first + 1) % WIDTH, end |-> last]

\* data.lines[testY][testX].spans[y]
TableSpan(kind, table, c, sy, b) ==
    IF kind = "loaded" THEN SpanAt(table, c.testY, c.testX, sy) ELSE Captured(kind, b)

SpanMismatch(span, scrStart, scrEnd) ==
    (~span.exists) \/ span.start # scrStart \/ span.end # scrEnd

\* The sweep points of the harness runs that are modelled, and the calls
\* testSlopes makes for them: testSlope(data, x1, y1, x0, y0, x1, y1, mismatch).
SweepPoints == (GridXs \X GridYs) \cup { <<69, 49>>, <<187, 49>>, <<64, 64>> }

AnchorCalls ==
    { [type |-> t, testX |-> p[1], testY |-> p[2],
       x0 |-> AnchorX(t), y0 |-> AnchorY(t), x1 |-> p[1], y1 |-> p[2]] :
      t \in 0 .. 3, p \in SweepPoints }

\* Scenario SC5, the horizontal edge (10,50)-(200,50).
ScenarioCalls ==
    { [type |-> 0, testX |-> 200, testY |-> 50, x0 |-> 10, y0 |-> 50, x1 |-> 200, y1 |-> 50] }

\* Horizontal edges between grid columns, on grid rows of the screen.
HorizontalCalls ==
    { [type |-> 0, testX |-> e[2], testY |-> e[3], x0 |-> e[1], y0 |-> e[3], x1 |-> e[2], y1 |-> e[3]] :
      e \in { g \in GridXs \X GridXs \X GridYs : g[1] < g[2] /\ g[3] < HEIGHT } }

Calls == AnchorCalls \cup ScenarioCalls \cup HorizontalCalls

HarnessInit ==
    /\ call \in Calls
    /\ dataKind \in DataKinds
    /\ mismatch \in BOOLEAN
    /\ pc = "call"
    /\ in_x0 = 0 /\ in_y0 = 0 /\ in_x1 = 0 /\ in_y1 = 0
    /\ slope = NoSlope
    /\ y = 0
    /\ startX = 0 /\ endX = 0
    /\ body = NoBody
    /\ inRange = TRUE
    /\ divisors = {}
    /\ banners = 0
    /\ reports = 0
    /\ scanned = {}
    /\ FileIdle
    /\ RunIdle
    /\ MainIdle

\* Lines 216-235 and the loop initialisation: normalise, Setup, y = y0.
TestSlopeEnter ==
    /\ pc = "call"
    /\ LET top == RasterTopToBottom(call.x0, call.y0, call.x1, call.y1)
           ny1 == BumpHorizontal(top[2], top[4])
           set == SetupSteps(top[1], top[2], top[3], ny1)
       IN  /\ in_x0' = top[1]
           /\ in_y0' = top[2]
           /\ in_x1' = top[3]
           /\ in_y1' = ny1
           /\ slope' = set.obj
           /\ inRange' = set.fits
           /\ divisors' = set.divs
           /\ y' = top[2]
    /\ pc' = "loop"
    /\ UNCHANGED <<startX, endX, harnessVars, fileVars, runVars, mainVars>>

\* "Skip scanlines out of view": continue
SkipScanline ==
    /\ pc = "loop" /\ y < in_y1
    /\ body' = LoopBody(slope, y)
    /\ body'.startScrX >= WIDTH
    /\ inRange' = (inRange /\ body'.fits)
    /\ y' = y + 1
    /\ UNCHANGED <<in_x0, in_y0, in_x1, in_y1, slope, pc, startX, endX, divisors>>
    /\ UNCHANGED <<call, dataKind, mismatch, banners, reports, scanned, fileVars, runVars, mainVars>>

\* if (y == 192) break
BreakAtBottom ==
    /\ pc = "loop" /\ y < in_y1
    /\ y = HEIGHT
    /\ body' = LoopBody(slope, y)
    /\ body'.startScrX < WIDTH
    /\ inRange' = (inRange /\ body'.fits)
    /\ pc' = "return"
    /\ UNCHANGED <<in_x0, in_y0, in_x1, in_y1, slope, y, startX, endX, divisors>>
    /\ UNCHANGED <<call, dataKind, mismatch, banners, reports, scanned, fileVars, runVars, mainVars>>

\* "Compare generated spans with those captured from hardware"
CompareScanline ==
    /\ pc = "loop" /\ y < in_y1
    /\ y # HEIGHT
    /\ body' = LoopBody(slope, y)
    /\ body'.startScrX < WIDTH
    /\ inRange' = (inRange /\ body'.fits)
    /\ LET differs == SpanMismatch(TableSpan(dataKind, lines, call, y, body'),
                                   body'.startScrX, body'.endScrX)
       IN  /\ mismatch' = (mismatch \/ differs)
           /\ banners' = IF differs /\ ~mismatch THEN banners + 1 ELSE banners
           /\ reports' = IF differs THEN reports + 1 ELSE reports
    /\ scanned' = scanned \cup {y}
    /\ y' = y + 1
    /\ UNCHANGED <<in_x0, in_y0, in_x1, in_y1, slope, pc, startX, endX, divisors>>
    /\ UNCHANGED <<call, dataKind, fileVars, runVars, mainVars>>

\* The loop condition y < y1 fails.
LoopExit ==
    /\ pc = "loop" /\ y >= in_y1
    /\ pc' = "return"
    /\ UNCHANGED <<in_x0, in_y0, in_x1, in_y1, slope, y, startX, endX, inRange, divisors>>
    /\ UNCHANGED <<harnessVars, fileVars, runVars, mainVars>>

HarnessNext == TestSlopeEnter \/ SkipScanline \/ BreakAtBottom \/ CompareScanline \/ LoopExit

HarnessSpec == HarnessInit /\ [][HarnessNext]_vars

---------------------------------------------------------------------------
(* testSlopes and test (main.cpp): one run over the sweep points           *)

\* testSlope(data, x1, y1, x0, y0, x1, y1, mismatch) with the anchor of test().
SweepCall(type, x1, y1) ==
    [type |-> type, testX |-> x1, testY |-> y1,
     x0 |-> AnchorX(type), y0 |-> AnchorY(type), x1 |-> x1, y1 |-> y1]

\* The sweep point after <<x1, y1>>: x1 inner 0..256, y1 outer 0..192.
NextSweep(pt) == IF pt[1] < WIDTH THEN <<pt[1] + 1, pt[2]>> ELSE <<0, pt[2] + 1>>

LastSweep == <<WIDTH, HEIGHT>>

\* Sweep points of one run that are followed.
RunLen == 4

\* Where the runs that are followed begin: at the first sweep point, before the
\* end of the first row, and RunLen points before the end of the sweep.
RunStarts == { <<0, 0>>, <<WIDTH - 1, 0>>, <<WIDTH - (RunLen - 1), HEIGHT>> }

\* The captures a run is given: the bounds of the shipped data, single points
\* and a box at the far corner.
RunBoxes == { <<0, WIDTH, 0, HEIGHT>>, <<0, 0, 0, 0>>, <<1, 1, 1, 1>>,
              <<WIDTH - 1, WIDTH, HEIGHT - 1, HEIGHT>> }
RunHeaders ==
    { [type |-> t, minX |-> b[1], maxX |-> b[2], minY |-> b[3], maxY |-> b[4]] :
      t \in 0 .. 3, b \in RunBoxes }

\* testSlope, lines 237-252, for the edge from the anchor of the type to a sweep
\* point of row y1: the scanlines its loop runs over before it ends or breaks
\* at scanline 192.
EdgeScanlines(type, y1) ==
    LET top == RasterTopToBottom(AnchorX(type), AnchorY(type), 0, y1)
    IN  Max(0, Min(BumpHorizontal(top[2], top[4]), HEIGHT) - top[2])

\* testSlope, line 245: the edge from the anchor to column x1 is the vertical
\* edge at column 256, the one edge of a run with startScrX >= 256; it has it
\* on every scanline.
AllSkipped(type, x1) == AnchorX(type) = WIDTH /\ x1 = WIDTH

\* The scanlines one call of a run compares with the table.
ComparedCount(type, x1, y1) ==
    IF AllSkipped(type, x1) THEN 0 ELSE EdgeScanlines(type, y1)

\* testSlopes, the inner loop: the scanlines compared by the calls for the
\* columns 0 .. n - 1 of row y1.
ComparedInRow(type, y1, n) ==
    (n - (IF n > 0 /\ AllSkipped(type, n - 1) THEN 1 ELSE 0)) * EdgeScanlines(type, y1)

\* testSlopes, the outer loop: the scanlines compared by the calls of the rows
\* lo .. hi, added up half by half.
RECURSIVE ComparedInRows(_, _, _)
ComparedInRows(type, lo, hi) ==
    IF lo > hi THEN 0
    ELSE IF lo = hi THEN ComparedInRow(type, lo, WIDTH + 1)
    ELSE ComparedInRows(type, lo, (lo + hi) \div 2)
            + ComparedInRows(type, ((lo + hi) \div 2) + 1, hi)

\* The scanlines compared by all the calls of a run before the one for pt.
ComparedBefore(type, pt) ==
    ComparedInRows(type, 0, pt[2] - 1) + ComparedInRow(type, pt[2], pt[1])

\* The mismatch lines a run has printed when it comes to the call for pt. A
\* table that holds what the hardware drew agrees on every scanline compared; a
\* blank table has no span, and a shifted one another first column, on every one
\* of them.
ReportsBefore(kind, type, pt) ==
    IF kind = "hardware" THEN 0 ELSE ComparedBefore(type, pt)

\* testSlopes, lines 284-289: a run at the call for one of the sweep points
\* RunStarts, with the output of the calls before it. The table is one of the
\* kinds given, "loaded" with every span zero.
RunPickedUp(kinds) ==
    /\ pData \in RunHeaders
    /\ dataKind \in kinds
    /\ \E st \in RunStarts :
          /\ call = SweepCall(pData.type, st[1], st[2])
          /\ visited = <<st>>
          /\ reports = ReportsBefore(dataKind, pData.type, st)
    /\ mismatch = (reports > 0)
    /\ banners = (IF mismatch THEN 1 ELSE 0)
    /\ okays = 0
    /\ scanned = {}
    /\ body = NoBody
    /\ pc = "call"
    /\ in_x0 = 0 /\ in_y0 = 0 /\ in_x1 = 0 /\ in_y1 = 0
    /\ slope = NoSlope
    /\ y = 0
    /\ startX = 0 /\ endX = 0
    /\ inRange = TRUE
    /\ divisors = {}
    /\ gen = NoGen
    /\ gx = 0 /\ gy = 0 /\ gprevX = 0 /\ gprevY = 0
    /\ block = <<>>
    /\ layout = <<>>
    /\ file = <<>>
    /\ fpc = "loaded"
    /\ pos = 0 /\ fail = FALSE
    /\ coords = <<0, 0>>
    /\ rx = 0 /\ ry = 0 /\ prevX = 0 /\ prevY = 0
    /\ recNo = 0 /\ recOff = 0
    /\ lastBlock = NoBlock
    /\ lines = NoTable

\* One testSlopes run, called on its own.
RunInit == RunPickedUp(DataKinds) /\ MainIdle

\* A run that goes on to the next point only while no mismatch was found (a
\* variant used to test that a mismatch does not halt the run).
SweepAdvanceUnlessMismatch ==
    /\ pc = "return"
    /\ visited # <<>>
    /\ ~mismatch
    /\ <<call.testX, call.testY>> # LastSweep
    /\ Len(visited) < RunLen
    /\ visited' = Append(visited, NextSweep(<<call.testX, call.testY>>))
    /\ call' = SweepCall(pData.type, visited'[Len(visited')][1], visited'[Len(visited')][2])
    /\ scanned' = {}
    /\ pc' = "call"
    /\ UNCHANGED <<in_x0, in_y0, in_x1, in_y1, slope, y, startX, endX, inRange, divisors>>
    /\ UNCHANGED <<dataKind, body, mismatch, banners, reports, fileVars, okays, mainVars>>

\* testSlopes, lines 287-289: testSlope returned, the loops go on to the next point.
SweepAdvance ==
    /\ pc = "return"
    /\ visited # <<>>
    /\ <<call.testX, call.testY>> # LastSweep
    /\ Len(visited) < RunLen
    /\ visited' = Append(visited, NextSweep(<<call.testX, call.testY>>))
    /\ call' = SweepCall(pData.type, visited'[Len(visited')][1], visited'[Len(visited')][2])
    /\ scanned' = {}
    /\ pc' = "call"
    /\ UNCHANGED <<in_x0, in_y0, in_x1, in_y1, slope, y, startX, endX, inRange, divisors>>
    /\ UNCHANGED <<dataKind, body, mismatch, banners, reports, fileVars, okays, mainVars>>

\* testSlopes, lines 290-295: the loops end, "OK!" unless a mismatch was found.
SweepEnd ==
    /\ pc = "return"
    /\ visited # <<>>
    /\ <<call.testX, call.testY>> = LastSweep
    /\ okays' = (IF mismatch THEN okays ELSE okays + 1)
    /\ pc' = "done"
    /\ UNCHANGED <<in_x0, in_y0, in_x1, in_y1, slope, y, startX, endX, inRange, divisors>>
    /\ UNCHANGED <<harnessVars, fileVars, visited, mainVars>>

RunNext == HarnessNext \/ SweepAdvance \/ SweepEnd

RunSpec == RunInit /\ [][RunNext]_vars

\* One turn of the loop of testSlope, whatever the body does: continue or the
\* end of the body (y++), or break.
LoopTurn ==
    /\ pc = "loop" /\ y < in_y1
    /\ (y' = y + 1 /\ pc' = pc) \/ (y' = y /\ pc' = "return")

\* The run is sequential code: it takes its next step whenever it has one.
RunFairSpec ==
    /\ RunSpec
    /\ WF_vars(TestSlopeEnter \/ LoopExit \/ SweepAdvance \/ SweepEnd)
    /\ WF_<<pc, y>>(LoopTurn)

---------------------------------------------------------------------------
(* generate (data/src/source/main.cpp): the capture file as the device     *)
(* writes it                                                               *)

U8(v) == v % 256
Bit0(type) == type % 2 = 1
Bit1(type) == (type \div 2) % 2 = 1

\* startX, endX of generate: the columns countAndWrite scans.
GenColRange(type, px) ==
    <<IF Bit0(type) THEN Min(px, WIDTH - 1) ELSE 0,
      IF Bit0(type) THEN WIDTH - 1 ELSE Min(px, WIDTH - 1)>>

\* startY, endY of generate: the scanlines written for one block.
GenScanRange(type, py) ==
    <<IF Bit1(type) THEN Min(py, HEIGHT - 1) ELSE 0,
      IF Bit1(type) THEN HEIGHT - 1 ELSE Min(py, HEIGHT - 1)>>

\* What the display capture holds in VRAM_A for one scanline: nothing lit
\* ("blank"), or the columns the hardware lights for the edge from the anchor
\* of the test type to (px, py), which are the columns Slope computes ("edge").
FrameKinds == {"blank", "edge"}

Unlit == [lit |-> FALSE, lo |-> 0, hi |-> 0]

EdgeRow(top, bottomY, checkY) ==
    IF checkY < top[2] \/ checkY >= bottomY THEN Unlit
    ELSE LET b == LoopBody(Setup(top[1], top[2], top[3], bottomY), checkY)
         IN  IF b.startScrX >= WIDTH \/ b.endScrX < 0 THEN Unlit
             ELSE [lit |-> TRUE, lo |-> Max(0, b.startScrX), hi |-> Min(WIDTH - 1, b.endScrX)]

\* The row checkY of the frame.
ScreenRow(frame, type, px, py, checkY) ==
    IF frame = "blank" THEN Unlit
    ELSE LET top == RasterTopToBottom(AnchorX(type), AnchorY(type), px, py)
         IN  EdgeRow(top, BumpHorizontal(top[2], top[4]), checkY)

\* VRAM_A[checkY * WIDTH + checkX] & 0x7FFF is not zero.
Lit(row, checkX) == row.lit /\ row.lo <= checkX /\ checkX <= row.hi

\* The first column of from..to that is lit (lit = TRUE) or dark (lit = FALSE).
FirstColumn(row, from, to, lit) ==
    CHOOSE checkX \in from .. to :
        /\ Lit(row, checkX) = lit
        /\ \A before \in from .. (checkX - 1) : Lit(row, before) # lit

\* The scan of countAndWrite after the first lit column: the column before the
\* first dark one, or endX when the row stays lit.
LastColumn(row, first, to) ==
    IF \E checkX \in (first + 1) .. to : ~Lit(row, checkX)
    THEN FirstColumn(row, first + 1, to, FALSE) - 1
    ELSE to

\* countAndWrite: <<found, first, last>> as the three bytes written.
CountAndWrite(row, from, to) ==
    IF \E checkX \in from .. to : Lit(row, checkX)
    THEN <<1, U8(FirstColumn(row, from, to, TRUE)),
           U8(LastColumn(row, FirstColumn(row, from, to, TRUE), to))>>
    ELSE <<0, U8(from), U8(to)>>

\* One block of span records: countAndWrite for checkY = startY .. endY.
GenBlock(g, px, py) ==
    [k \in 1 .. (GenScanRange(g.type, py)[2] - GenScanRange(g.type, py)[1] + 1) |->
        CountAndWrite(ScreenRow(g.frame, g.type, px, py, GenScanRange(g.type, py)[1] + k - 1),
                      GenColRange(g.type, px)[1], GenColRange(g.type, px)[2])]

\* The bytes of a block, three per span record.
Flatten(b) == [k \in 1 .. (3 * Len(b)) |-> b[((k - 1) \div 3) + 1][((k - 1) % 3) + 1]]

\* A 16-bit value as the device stores it (little-endian).
U16Bytes(v) == <<v % 256, (v \div 256) % 256>>

FileNear == 1
CutNear == 9

\* The bounding boxes generate is configured with.
GenXs == (0 .. FileNear) \cup ((WIDTH - FileNear) .. WIDTH)
GenYs == (0 .. FileNear) \cup ((HEIGHT - FileNear) .. HEIGHT)
GenConfigs ==
    { [type |-> t, minX |-> bx[1], maxX |-> bx[2], minY |-> by[1], maxY |-> by[2], frame |-> f] :
      t \in 0 .. 3,
      bx \in { w \in GenXs \X GenXs : w[1] <= w[2] /\ w[2] - w[1] <= FileNear },
      by \in { w \in GenYs \X GenYs : w[1] <= w[2] /\ w[2] - w[1] <= FileNear },
      f \in FrameKinds }

SlopeIdle ==
    /\ in_x0 = 0 /\ in_y0 = 0 /\ in_x1 = 0 /\ in_y1 = 0
    /\ slope = NoSlope
    /\ pc = "idle"
    /\ y = 0
    /\ startX = 0 /\ endX = 0
    /\ inRange = TRUE
    /\ divisors = {}

FileInit ==
    /\ SlopeIdle
    /\ HarnessIdle
    /\ gen \in GenConfigs
    /\ gx = 0 /\ gy = 0 /\ gprevX = 0 /\ gprevY = 0
    /\ block = <<>>
    /\ layout = <<>>
    /\ file = <<>>
    /\ fpc = "generate"
    /\ pos = 0 /\ fail = FALSE
    /\ pData = NoData
    /\ coords = <<0, 0>>
    /\ rx = 0 /\ ry = 0 /\ prevX = 0 /\ prevY = 0
    /\ recNo = 0 /\ recOff = 0
    /\ lastBlock = NoBlock
    /\ lines = NoTable
    /\ RunIdle
    /\ MainIdle

\* generate, lines 250-257 and 302-303: the header, then the loops start.
GenHeader ==
    /\ fpc = "generate"
    /\ file' = <<U8(gen.type)>> \o U16Bytes(gen.minX) \o U16Bytes(gen.maxX)
                 \o <<U8(gen.minY), U8(gen.maxY)>>
    /\ gx' = gen.minX
    /\ gy' = gen.minY
    /\ gprevX' = 0
    /\ gprevY' = 0
    /\ fpc' = IF gen.minY <= gen.maxY /\ gen.minX <= gen.maxX THEN "gen_record" ELSE "gen_trailer"
    /\ UNCHANGED <<gen, block, layout, readVars, slopeVars, harnessVars, runVars, mainVars>>

\* generate, lines 304-319: one iteration of the (y outer, x inner) loop.
GenRecord ==
    /\ fpc = "gen_record"
    /\ block' = GenBlock(gen, gprevX, gprevY)
    /\ layout' = Append(layout, [off |-> Len(file), cx |-> U8(gprevX), cy |-> U8(gprevY),
                                 n |-> Len(block')])
    /\ file' = file \o <<U8(gprevX), U8(gprevY)>> \o Flatten(block')
    /\ gprevX' = gx
    /\ gprevY' = gy
    /\ gx' = IF gx < gen.maxX THEN gx + 1 ELSE gen.minX
    /\ gy' = IF gx < gen.maxX THEN gy ELSE gy + 1
    /\ fpc' = IF gx < gen.maxX \/ gy < gen.maxY THEN "gen_record" ELSE "gen_trailer"
    /\ UNCHANGED <<gen, readVars, slopeVars, harnessVars, runVars, mainVars>>

\* generate, lines 322-338: the final block for the final (prevX, prevY), fclose.
GenTrailer ==
    /\ fpc = "gen_trailer"
    /\ block' = GenBlock(gen, gprevX, gprevY)
    /\ layout' = Append(layout, [off |-> Len(file), cx |-> U8(gprevX), cy |-> U8(gprevY),
                                 n |-> Len(block')])
    /\ file' = file \o Flatten(block')
    /\ fpc' = "written"
    /\ UNCHANGED <<gen, gx, gy, gprevX, gprevY, readVars, slopeVars, harnessVars, runVars, mainVars>>

---------------------------------------------------------------------------
(* The file between the device and the harness: copied whole, or cut short *)

\* The length of the file generate wrote.
WrittenLen == layout[Len(layout)].off + 3 * layout[Len(layout)].n

\* The lengths a cut leaves: near the start or near the end of the file.
CutLengths(len) == { n \in 0 .. (len - 1) : n <= CutNear \/ n >= len - CutNear }

Keep ==
    /\ fpc = "written"
    /\ fpc' = "stored"
    /\ UNCHANGED <<genVars, file, readVars, slopeVars, harnessVars, runVars, mainVars>>

Truncate ==
    /\ fpc = "written"
    /\ \E n \in CutLengths(Len(file)) : file' = SubSeq(file, 1, n)
    /\ fpc' = "stored"
    /\ UNCHANGED <<genVars, readVars, slopeVars, harnessVars, runVars, mainVars>>

---------------------------------------------------------------------------
(* readFile (main.cpp)                                                     *)

\* std::istream::read of n bytes at position p of a stream whose failbit is f:
\* the number of bytes stored. A stream that failed stores nothing; a read
\* past the end stores the bytes left and sets failbit.
Stored(p, f, n) == IF f THEN 0 ELSE Min(n, Len(file) - p)

\* The j-th byte (from 1) after position p is stored by a run of reads that
\* starts at p with failbit f.
Readable(p, f, j) == ~f /\ p + j <= Len(file)

\* A byte of the header; the members of a fresh Data are zero.
HeaderByte(k) == IF Readable(0, FALSE, k) THEN file[k] ELSE 0

ReadHeaderFields ==
    [type |-> HeaderByte(1),
     minX |-> HeaderByte(2) + 256 * HeaderByte(3),
     maxX |-> HeaderByte(4) + 256 * HeaderByte(5),
     minY |-> HeaderByte(6),
     maxY |-> HeaderByte(7)]

HeaderLen == 7

\* u8 coords[2] is read before anything initialises it: any bytes.
UninitBytes == {0, 255}

\* The range without lines 87-88 (a variant used to test the round trip).
ReadScanRangeUnclamped(type, py) ==
    <<IF Bit1(type) THEN py ELSE 0, IF Bit1(type) THEN HEIGHT - 1 ELSE py>>

\* startY, endY of readFile, lines 85-88.
ReadScanRange(type, py) ==
    <<IF Bit1(type) THEN (IF py >= HEIGHT THEN HEIGHT - 1 ELSE py) ELSE 0,
      IF Bit1(type) THEN HEIGHT - 1 ELSE (IF py >= HEIGHT THEN HEIGHT - 1 ELSE py)>>

\* The range of lines 100-101 without std::min (a variant used to test the
\* bounds of the table).
ReadTrailerRangeUnclamped(d) ==
    <<IF Bit1(d.type) THEN d.minY ELSE 0, IF Bit1(d.type) THEN HEIGHT - 1 ELSE d.maxY>>

\* startY, endY of readFile, lines 100-101.
ReadTrailerRange(d) ==
    <<IF Bit1(d.type) THEN Min(d.minY, HEIGHT - 1) ELSE 0,
      IF Bit1(d.type) THEN HEIGHT - 1 ELSE Min(d.maxY, HEIGHT - 1)>>

\* lines[row][col].spans[checkY] before the block is read: what the block before
\* stored there, or the zeroes of a fresh Data.
SpanBefore(row, col, checkY) == SpanAt(lines, row, col, checkY)

\* The three reads of one span, lines 91-93; the span is k-th in a block that
\* starts at position p.
ReadSpan(p, f, k, before) ==
    [exists |-> IF Readable(p, f, 3 * k - 2) THEN file[p + 3 * k - 2] # 0 ELSE before.exists,
     start |-> IF Readable(p, f, 3 * k - 1) THEN file[p + 3 * k - 1] ELSE before.start,
     end |-> IF Readable(p, f, 3 * k) THEN file[p + 3 * k] ELSE before.end]

\* The loop over checkY, lines 89-94 and 102-107, into lines[row][col].
ReadBlock(p, f, row, col, rng) ==
    [row |-> row, col |-> col, from |-> rng[1], to |-> rng[2],
     spans |-> [k \in 1 .. (rng[2] - rng[1] + 1) |->
                   ReadSpan(p, f, k, SpanBefore(row, col, rng[1] + k - 1))]]

\* readFile, lines 57-78: the header, the type switch, the loops start.
ReadHeader ==
    /\ fpc = "stored"
    /\ pData' = ReadHeaderFields
    /\ pos' = Stored(0, FALSE, HeaderLen)
    /\ fail' = (pos' < HeaderLen)
    /\ coords' \in UninitBytes \X UninitBytes
    /\ prevX' = 0
    /\ prevY' = 0
    /\ rx' = pData'.minX
    /\ ry' = pData'.minY
    /\ recNo' = 0
    /\ lines' = NoTable
    /\ fpc' = IF pData'.type \notin 0 .. 3 THEN "invalid_type"
              ELSE IF pData'.minY <= pData'.maxY /\ pData'.minX <= pData'.maxX
                   THEN "read_record" ELSE "read_trailer"
    /\ UNCHANGED <<genVars, file, recOff, lastBlock, slopeVars, harnessVars, runVars, mainVars>>

\* readFile, lines 80-84 when the check fails: " -- Invalid file".
ReadRecordInvalid ==
    /\ fpc = "read_record"
    /\ recNo' = recNo + 1
    /\ recOff' = pos
    /\ coords' = <<IF Readable(pos, fail, 1) THEN file[pos + 1] ELSE coords[1],
                   IF Readable(pos, fail, 2) THEN file[pos + 2] ELSE coords[2]>>
    /\ coords'[1] # U8(prevX) \/ coords'[2] # U8(prevY)
    /\ pos' = pos + Stored(pos, fail, 2)
    /\ fail' = (fail \/ pos' < pos + 2)
    /\ fpc' = "invalid_file"
    /\ UNCHANGED <<genVars, file, pData, rx, ry, prevX, prevY, lastBlock, lines, slopeVars, harnessVars, runVars, mainVars>>

\* readFile, lines 80-96: one iteration of the (y outer, x inner) loop.
ReadRecord ==
    /\ fpc = "read_record"
    /\ recNo' = recNo + 1
    /\ recOff' = pos
    /\ coords' = <<IF Readable(pos, fail, 1) THEN file[pos + 1] ELSE coords[1],
                   IF Readable(pos, fail, 2) THEN file[pos + 2] ELSE coords[2]>>
    /\ coords'[1] = U8(prevX) /\ coords'[2] = U8(prevY)
    /\ lastBlock' = ReadBlock(pos + 2, fail \/ Stored(pos, fail, 2) < 2, prevY, prevX,
                              ReadScanRange(pData.type, prevY))
    /\ lines' = StoreBlock(lines, lastBlock')
    /\ pos' = pos + Stored(pos, fail, 2 + 3 * Len(lastBlock'.spans))
    /\ fail' = (fail \/ pos' < pos + 2 + 3 * Len(lastBlock'.spans))
    /\ prevX' = rx
    /\ prevY' = ry
    /\ rx' = IF rx < pData.maxX THEN rx + 1 ELSE pData.minX
    /\ ry' = IF rx < pData.maxX THEN ry ELSE ry + 1
    /\ fpc' = IF rx < pData.maxX \/ ry < pData.maxY THEN "read_record" ELSE "read_trailer"
    /\ UNCHANGED <<genVars, file, pData, slopeVars, harnessVars, runVars, mainVars>>

\* readFile, lines 100-111: the trailing block, " -- OK", the capture returned.
ReadTrailer ==
    /\ fpc = "read_trailer"
    /\ lastBlock' = ReadBlock(pos, fail, prevY, prevX, ReadTrailerRange(pData))
    /\ lines' = StoreBlock(lines, lastBlock')
    /\ pos' = pos + Stored(pos, fail, 3 * Len(lastBlock'.spans))
    /\ fail' = (fail \/ pos' < pos + 3 * Len(lastBlock'.spans))
    /\ fpc' = "ok"
    /\ UNCHANGED <<genVars, file, pData, coords, rx, ry, prevX, prevY, recNo, recOff,
                   slopeVars, harnessVars, runVars, mainVars>>

FileNext ==
    \/ GenHeader
    \/ GenRecord
    \/ GenTrailer
    \/ Keep
    \/ Truncate
    \/ ReadHeader
    \/ ReadRecordInvalid
    \/ ReadRecord
    \/ ReadTrailer

FileSpec == FileInit /\ [][FileNext]_vars

---------------------------------------------------------------------------
(* main (main.cpp): readFile for the four paths, then test for every       *)
(* capture that was returned                                               *)

\* The TEST_TYPE with which the generator writes the file of the path: TL.bin,
\* TR.bin, BL.bin, BR.bin for 0, 1, 2, 3.
PathType(p) == p - 1

\* The generator build whose capture main() is run on: a box of FileNear + 1
\* columns and scanlines at a corner of the screen, or a single corner point.
MainConfigs ==
    { g \in GenConfigs :
        \/ g.maxX - g.minX = FileNear /\ g.maxY - g.minY = FileNear
        \/ /\ g.minX = g.maxX /\ g.minX \in {0, WIDTH}
           /\ g.minY = g.maxY /\ g.minY \in {0, HEIGHT} }

\* main() begins: nothing is loaded. One build of the generator writes one
\* file; its run is followed when main() comes to the path of that file.
MainStart ==
    /\ SlopeIdle
    /\ HarnessIdle
    /\ gen \in MainConfigs
    /\ gx = 0 /\ gy = 0 /\ gprevX = 0 /\ gprevY = 0
    /\ block = <<>>
    /\ layout = <<>>
    /\ file = <<>>
    /\ fpc = "path"
    /\ pos = 0 /\ fail = FALSE
    /\ pData = NoData
    /\ coords = <<0, 0>>
    /\ rx = 0 /\ ry = 0 /\ prevX = 0 /\ prevY = 0
    /\ recNo = 0 /\ recOff = 0
    /\ lastBlock = NoBlock
    /\ lines = NoTable
    /\ RunIdle
    /\ mainpc = "load"
    /\ slot = 1
    /\ captures = NoCaptures
    /\ absent = {}

\* The capture readFile returns for a complete file of the whole sweep whose
\* span records are all zero: every span of the table is zero.
ZeroCapture(type) ==
    [loaded |-> TRUE,
     data |-> [type |-> type, minX |-> 0, maxX |-> WIDTH, minY |-> 0, maxY |-> HEIGHT],
     table |-> NoTable]

\* main() picked up in a later part of a test: the capture of the path of its
\* type is under test, the paths before it were missing, and the next path was
\* missing or held a capture of zero spans too. Every comparison before found
\* no span, from the first sweep point on.
MainPickUp ==
    /\ RunPickedUp({"loaded"})
    /\ pData = ZeroCapture(pData.type).data
    /\ mainpc = "test"
    /\ slot = pData.type + 1
    /\ \E after \in BOOLEAN :
          /\ captures = [p \in Paths |->
                IF p = slot \/ (after /\ p = slot + 1) THEN ZeroCapture(PathType(p))
                ELSE NoCapture]
          /\ absent = { p \in Paths : ~(p = slot \/ (after /\ p = slot + 1)) }

MainInit == MainStart \/ MainPickUp

\* main(), lines 310-315: on to the next readFile call, or after the fourth
\* to the tests; the locals of readFile are gone.
NextPath ==
    /\ slot' = (IF slot < 4 THEN slot + 1 ELSE 1)
    /\ mainpc' = (IF slot < 4 THEN "load" ELSE "test")
    /\ fpc' = (IF slot < 4 THEN "path" ELSE "loaded")
    /\ file' = <<>>
    /\ pos' = 0 /\ fail' = FALSE
    /\ pData' = NoData
    /\ coords' = <<0, 0>>
    /\ rx' = 0 /\ ry' = 0 /\ prevX' = 0 /\ prevY' = 0
    /\ recNo' = 0 /\ recOff' = 0
    /\ lastBlock' = NoBlock
    /\ lines' = NoTable

\* readFile, lines 47-50: "does not exist or is not a file", nullptr.
MissingFile ==
    /\ mainpc = "load" /\ fpc = "path"
    /\ absent' = absent \cup {slot}
    /\ NextPath
    /\ UNCHANGED <<genVars, captures, slopeVars, harnessVars, runVars>>

\* readFile, lines 47-53: the path holds the file the generator wrote.
FileFound ==
    /\ mainpc = "load" /\ fpc = "path"
    /\ gen.type = PathType(slot)
    /\ fpc' = "generate"
    /\ UNCHANGED <<genVars, file, readVars, slopeVars, harnessVars, runVars, mainVars>>

\* readFile, lines 71 and 83: return nullptr.
ReturnNull ==
    /\ mainpc = "load" /\ fpc \in {"invalid_type", "invalid_file"}
    /\ NextPath
    /\ UNCHANGED <<genVars, captures, absent, slopeVars, harnessVars, runVars>>

\* readFile, line 111: return std::move(pData).
ReturnData ==
    /\ mainpc = "load" /\ fpc = "ok"
    /\ captures' = [captures EXCEPT ![slot] = [loaded |-> TRUE, data |-> pData, table |-> lines]]
    /\ NextPath
    /\ UNCHANGED <<genVars, absent, slopeVars, harnessVars, runVars>>

\* main(), lines 315-318: if (data) is false, no test for this path.
TestSkip ==
    /\ mainpc = "test" /\ pc = "idle" /\ slot \in Paths
    /\ ~captures[slot].loaded
    /\ slot' = slot + 1
    /\ UNCHANGED <<mainpc, captures, absent, slopeVars, harnessVars, fileVars, runVars>>

\* main(), lines 315-318, test() and testSlopes, lines 284-289: the run on the
\* capture begins with mismatch = false and the first sweep point.
TestStart ==
    /\ mainpc = "test" /\ pc = "idle" /\ slot \in Paths
    /\ captures[slot].loaded
    /\ pData' = captures[slot].data
    /\ lines' = captures[slot].table
    /\ dataKind' = "loaded"
    /\ mismatch' = FALSE
    /\ call' = SweepCall(captures[slot].data.type, 0, 0)
    /\ visited' = <<<<0, 0>>>>
    /\ scanned' = {}
    /\ pc' = "call"
    /\ UNCHANGED <<in_x0, in_y0, in_x1, in_y1, slope, y, startX, endX, inRange, divisors>>
    /\ UNCHANGED <<body, banners, reports, okays, mainVars>>
    /\ UNCHANGED <<genVars, file, fpc, pos, fail, coords, rx, ry, prevX, prevY, recNo, recOff,
                   lastBlock>>

\* testSlopes and test() return to main().
TestReturn ==
    /\ mainpc = "test" /\ pc = "done"
    /\ pc' = "idle"
    /\ slot' = slot + 1
    /\ visited' = <<>>
    /\ UNCHANGED <<in_x0, in_y0, in_x1, in_y1, slope, y, startX, endX, inRange, divisors>>
    /\ UNCHANGED <<harnessVars, fileVars, okays, mainpc, captures, absent>>

\* main(), line 325: return 0.
MainReturn ==
    /\ mainpc = "test" /\ pc = "idle" /\ slot \notin Paths
    /\ mainpc' = "exit"
    /\ UNCHANGED <<slot, captures, absent, slopeVars, harnessVars, fileVars, runVars>>

MainNext ==
    \/ MissingFile
    \/ FileFound
    \/ FileNext
    \/ ReturnNull
    \/ ReturnData
    \/ TestSkip
    \/ TestStart
    \/ HarnessNext
    \/ SweepAdvance
    \/ SweepEnd
    \/ TestReturn
    \/ MainReturn

MainSpec == MainInit /\ [][MainNext]_vars

---------------------------------------------------------------------------
(* Claims about Slope                                                      *)

InGrid ==
    /\ in_x0 \in 0 .. WIDTH /\ in_x1 \in 0 .. WIDTH
    /\ in_y0 \in 0 .. HEIGHT /\ in_y1 \in 0 .. HEIGHT

TopY == Min(in_y0, in_y1)
BottomY == Max(in_y0, in_y1)

\* The slope configured from the same endpoints in the opposite order.
Reversed == Setup(in_x1, in_y1, in_x0, in_y0)

SameAsReversed ==
    /\ DX(slope) = DX(Reversed)
    /\ IsXMajor(slope) = IsXMajor(Reversed)
    /\ IsNegative(slope) = IsNegative(Reversed)
    /\ pc = "query" => /\ startX = FracXStart(Reversed, y)
                       /\ endX = FracXEnd(Reversed, y)

\* C1 as stated: for all endpoints in the grid that are not the same point,
\* horizontal edges included, Setup(x0,y0,x1,y1) and Setup(x1,y1,x0,y0) give
\* identical DX, IsXMajor, IsNegative and identical FracXStart(y), FracXEnd(y)
\* for every y between the two Y coordinates.
C1_OrientationSymmetry == (InGrid /\ pc # "new") => SameAsReversed

\* C1 amended: the symmetry holds for every edge with y0 # y1; for a horizontal
\* edge (y0 = y1, x0 # x1) DX and IsXMajor are still identical, but IsNegative is
\* x1 < x0 of the arguments as given, so the two orders disagree on it.
C1_OrientationSymmetryNonHorizontal ==
    (InGrid /\ pc # "new") =>
        /\ in_y0 # in_y1 => SameAsReversed
        /\ in_y0 = in_y1 => /\ DX(slope) = DX(Reversed)
                            /\ IsXMajor(slope) = IsXMajor(Reversed)
                            /\ IsNegative(slope) = (in_x1 < in_x0)
                            /\ IsNegative(Reversed) = (in_x0 < in_x1)

C1_Witness ==
    /\ InGrid /\ pc = "query"
    /\ in_y1 < in_y0 /\ in_x0 < in_x1
    /\ IsNegative(slope) /\ IsXMajor(slope)
    /\ TopY < y /\ y < BottomY
    /\ startX # endX

\* The state is S+ = Setup(0,0,n,m) with 0 < m < n <= WIDTH (m = n - k).
IsPositiveFromOrigin ==
    /\ in_x0 = 0 /\ in_y0 = 0
    /\ 0 < in_y1 /\ in_y1 < in_x1 /\ in_x1 <= WIDTH

\* S- = Setup(n,0,0,m)
MirrorSlope == Setup(in_x1, 0, 0, in_y1)

GapBelowPositive(s, sy) == XStart(s, sy + 1) > XEnd(s, sy) + 1
GapBelowNegative(s, sy) == XStart(s, sy + 1) < XEnd(s, sy) - 1

\* C2: for 0 < k < n <= 256 and every scanline y in [0, n-k), the columns of
\* S- = Setup(n,0,0,n-k) are those of S+ = Setup(0,0,n,n-k) reflected by
\* c <-> n-1-c, a one-pixel gap follows scanline y of S- exactly when one follows
\* it in S+, and Setup(256,0,187,49) mirrors Setup(0,0,69,49) by c <-> 255-c.
C2_NegativeMirror ==
    (IsPositiveFromOrigin /\ pc = "query" /\ y < in_y1) =>
        /\ XStart(MirrorSlope, y) = (in_x1 - 1) - XStart(slope, y)
        /\ XEnd(MirrorSlope, y) = (in_x1 - 1) - XEnd(slope, y)
        /\ y + 1 < in_y1 => (GapBelowNegative(MirrorSlope, y) <=> GapBelowPositive(slope, y))
        /\ (in_x1 = 69 /\ in_y1 = 49) =>
              /\ XStart(Setup(256, 0, 187, 49), y) = 255 - XStart(slope, y)
              /\ XEnd(Setup(256, 0, 187, 49), y) = 255 - XEnd(slope, y)

C2_Witness ==
    /\ IsPositiveFromOrigin /\ pc = "query" /\ y + 1 < in_y1
    /\ in_x1 = 69 /\ in_y1 = 49
    /\ GapBelowPositive(slope, y)
    /\ GapBelowNegative(MirrorSlope, y)

\* C3: DX() = |x1-x0| * floor(2^18 / |y1-y0|) when y0 # y1 (division before
\* multiplication) and |x1-x0| * 2^18 when y0 = y1.
C3_DivisionFirstDX ==
    (InGrid /\ pc # "new") =>
        LET dx_int == Abs(in_x1 - in_x0)
            dy_int == Abs(in_y1 - in_y0)
        IN  DX(slope) = IF dy_int # 0 THEN dx_int * (kOne \div dy_int) ELSE dx_int * kOne

\* A state where the division-first value differs from floor(dx * 2^18 / dy).
C3_Witness ==
    /\ InGrid /\ pc = "set" /\ in_y0 # in_y1
    /\ DX(slope) # (Abs(in_x1 - in_x0) * kOne) \div Abs(in_y1 - in_y0)
    /\ DX(slope) = Abs(in_x1 - in_x0) * (kOne \div Abs(in_y1 - in_y0))

\* C4: inside the grid Setup divides by no zero, DX() >= 0, and no value computed
\* by Setup, FracXStart(y) or FracXEnd(y), y between the two Y coordinates
\* (inclusive), leaves the signed 32-bit range.
C4_ArithmeticTotality ==
    InGrid => /\ inRange
              /\ 0 \notin divisors
              /\ pc # "new" => DX(slope) >= 0

C4_Witness ==
    /\ InGrid /\ pc = "query" /\ inRange
    /\ y = BottomY /\ BottomY - TopY = HEIGHT
    /\ Abs(in_x1 - in_x0) = WIDTH
    /\ IsNegative(slope)

\* C5: after Setup(0,0,69,49) the slope is X-major and some scanline y* with
\* 0 <= y*, y*+1 < 49 has XStart(y*+1) > XEnd(y*) + 1.
C5_XMajorGap ==
    (in_x0 = 0 /\ in_y0 = 0 /\ in_x1 = 69 /\ in_y1 = 49 /\ pc # "new") =>
        /\ IsXMajor(slope)
        /\ \E ys \in 0 .. 47 : GapBelowPositive(slope, ys)

C5_Witness ==
    /\ in_x0 = 0 /\ in_y0 = 0 /\ in_x1 = 69 /\ in_y1 = 49 /\ pc = "query"
    /\ y + 1 < 49
    /\ Sar32(startX, kFracBits) = XStart(slope, y)
    /\ XStart(slope, y + 1) = Sar32(endX, kFracBits) + 2

\* C6: for y0 # y1 and every scanline y in [top, bottom), XStart(y) <= XEnd(y)
\* for a positive slope, XStart(y) >= XEnd(y) for a negative one, and the two
\* (fractional and screen) coincide when the slope is not X-major.
C6_PixelOrdering ==
    (InGrid /\ in_y0 # in_y1 /\ pc = "query" /\ y < BottomY) =>
        /\ ~IsNegative(slope) => Sar32(startX, kFracBits) <= Sar32(endX, kFracBits)
        /\ IsNegative(slope) => Sar32(startX, kFracBits) >= Sar32(endX, kFracBits)
        /\ ~IsXMajor(slope) => /\ startX = endX
                               /\ XStart(slope, y) = XEnd(slope, y)

C6_Witness ==
    /\ InGrid /\ in_y0 # in_y1 /\ pc = "query" /\ y < BottomY /\ TopY < y
    /\ IsNegative(slope) /\ IsXMajor(slope)
    /\ Sar32(startX, kFracBits) > Sar32(endX, kFracBits)

\* C7: for n in 1..192, Setup(0,0,n,n) is neither X-major nor negative,
\* XStart(y) = XEnd(y) = y for every y in [0,n), and DX() = n * floor(2^18 / n),
\* which is below 2^18 whenever n does not divide 2^18.
C7_Diagonal ==
    (in_x0 = 0 /\ in_y0 = 0 /\ in_x1 = in_y1 /\ in_x1 \in 1 .. HEIGHT /\ pc # "new") =>
        /\ ~IsXMajor(slope)
        /\ ~IsNegative(slope)
        /\ DX(slope) = in_x1 * (kOne \div in_x1)
        /\ kOne % in_x1 # 0 => DX(slope) < kOne
        /\ (pc = "query" /\ y < in_x1) => /\ Sar32(startX, kFracBits) = y
                                           /\ Sar32(endX, kFracBits) = y

C7_Witness ==
    /\ in_x0 = 0 /\ in_y0 = 0 /\ in_x1 = HEIGHT /\ in_y1 = HEIGHT /\ pc = "query"
    /\ y = HEIGHT - 1
    /\ DX(slope) < kOne
    /\ Sar32(startX, kFracBits) = y

---------------------------------------------------------------------------
(* Claims about testSlope                                                  *)

\* testSlope was given a horizontal edge y0 = y1 < 192 with x0 < x1 <= 256.
HorizontalCall ==
    /\ call.y0 = call.y1 /\ call.y1 < HEIGHT
    /\ 0 <= call.x0 /\ call.x0 < call.x1 /\ call.x1 <= WIDTH

\* C8: for a horizontal edge the harness increments y1 by one before Setup and
\* evaluates exactly one scanline, y0, whose span has XStart = x0 and
\* XEnd >= x1 - 1.
C8_HorizontalEdge ==
    HorizontalCall =>
        /\ pc # "call" => /\ in_y0 = call.y0 /\ in_y1 = call.y1 + 1
                          /\ in_x0 = call.x0 /\ in_x1 = call.x1
                          /\ slope = Setup(call.x0, call.y0, call.x1, call.y1 + 1)
        /\ scanned \subseteq {call.y0}
        /\ pc = "return" => scanned = {call.y0}
        /\ scanned # {} => /\ body.startScrX = call.x0
                           /\ body.endScrX >= call.x1 - 1
                           /\ XStart(slope, call.y0) = call.x0
                           /\ XEnd(slope, call.y0) >= call.x1 - 1

C8_Witness ==
    /\ HorizontalCall /\ pc = "return"
    /\ call.x0 = 10 /\ call.y0 = 50 /\ call.x1 = 200
    /\ scanned = {50}
    /\ body.startScrX = 10 /\ body.endScrX >= 199

---------------------------------------------------------------------------
(* Claims about readFile and generate                                      *)

Reading == fpc \in {"read_record", "read_trailer", "ok", "invalid_type", "invalid_file"}

\* readFile is given the file exactly as generate wrote it.
Intact == Reading /\ Len(file) = WrittenLen

\* C9: Truncated file. A stream that ends before readFile has the bytes it
\* asks for (some read came up short, so failbit is set) is never accepted:
\* readFile does not reach " -- OK" and return the capture.
C9_TruncatedFile == fpc = "ok" => ~fail

\* C10: Capture round-trip. When readFile parses the file generate wrote, at
\* every record of the loop the record starts where the generator started it,
\* the two bytes read are the generator's ((u8)prevX, (u8)prevY), "Invalid file"
\* is not taken, and the span records consumed are as many as were written.
C10_CaptureRoundTrip ==
    (Intact /\ recNo >= 1) =>
        /\ fpc # "invalid_file"
        /\ recNo < Len(layout)
        /\ recOff = layout[recNo].off
        /\ coords = <<layout[recNo].cx, layout[recNo].cy>>
        /\ fpc \in {"read_record", "read_trailer"} =>
              /\ Len(lastBlock.spans) = layout[recNo].n
              /\ pos = layout[recNo + 1].off
              /\ ~fail

\* A record whose prevY is 192 has been read back from below the last scanline
\* of a bottom-anchored capture: one span record, the coordinate byte 192.
C10_Witness ==
    /\ Intact
    /\ fpc = "read_trailer"
    /\ recNo = 2
    /\ Bit1(pData.type)
    /\ lastBlock.row = HEIGHT
    /\ coords = <<WIDTH - 1, HEIGHT>>
    /\ Len(lastBlock.spans) = 1

\* C11: Trailing span block. After the loops readFile reads the final block for
\* (prevX, prevY) = (maxX, maxY) with the scanline range of every other record
\* applied to maxY, stores span k of the block at scanline k of that range in
\* the table entry (maxY, maxX), and consumes exactly what the generator wrote.
C11_TrailingBlock ==
    (Intact /\ fpc = "ok") =>
        /\ lastBlock.row = gen.maxY /\ lastBlock.col = gen.maxX
        /\ lastBlock.from = ReadScanRange(pData.type, gen.maxY)[1]
        /\ lastBlock.to = ReadScanRange(pData.type, gen.maxY)[2]
        /\ Len(lastBlock.spans) = layout[Len(layout)].n
        /\ pos = WrittenLen
        /\ ~fail
        /\ \A k \in 1 .. Len(block) :
              lastBlock.spans[k] = [exists |-> block[k][1] = 1, start |-> block[k][2],
                                    end |-> block[k][3]]

---------------------------------------------------------------------------
(* Claims about testSlopes                                                 *)

\* A testSlopes run is in progress.
Running == visited # <<>>

\* The sweep point of the call lies in the bounds recorded in the capture.
InBounds(d, c) ==
    /\ d.minX <= c.testX /\ c.testX <= d.maxX
    /\ d.minY <= c.testY /\ c.testY <= d.maxY

\* C12: Test loop domain. The harness builds a Slope and compares spans only
\* for sweep points inside the bounds (minX, maxX, minY, maxY) of the loaded
\* capture, and for every such point that it reaches.
C12_TestLoopDomain ==
    Running =>
        /\ (pc = "loop" \/ scanned # {}) => InBounds(pData, call)
        /\ \A i \in 1 .. (Len(visited) - 1) :
              visited[i + 1] = NextSweep(visited[i])

\* The scanlines of the edge that the loop of testSlope neither skips nor breaks at.
ComparedScanlines ==
    { sy \in in_y0 .. (in_y1 - 1) : sy # HEIGHT /\ LoopBody(slope, sy).startScrX < WIDTH }

\* The output of the run so far agrees with the mismatches found so far.
RunOutput ==
    /\ banners = (IF mismatch THEN 1 ELSE 0)
    /\ (reports > 0) = mismatch
    /\ okays = (IF pc = "done" /\ ~mismatch THEN 1 ELSE 0)
    /\ pc = "return" =>
          /\ scanned = ComparedScanlines
          /\ Cardinality(scanned) = ComparedCount(call.type, call.testX, call.testY)
          /\ reports = ReportsBefore(dataKind, call.type, <<call.testX, call.testY>>)
                          + (IF dataKind = "hardware" THEN 0 ELSE Cardinality(scanned))
    /\ pc = "done" => visited[Len(visited)] = LastSweep

\* The run has gone as far as it is followed: to its end, or RunLen points.
RunFollowed == pc = "done" \/ (pc = "return" /\ Len(visited) = RunLen)

\* C13: Mismatch never halts a run. The banner is printed exactly once per run
\* with a mismatch and not without one, "OK!" is printed at the end exactly when
\* there was none, every call compares all the scanlines of its edge, and after
\* a mismatch the run still goes on through the later sweep points to its end.
C13_MismatchNeverHalts ==
    /\ [](Running => RunOutput)
    /\ (Running /\ mismatch) ~> RunFollowed
    /\ (Running /\ ~mismatch) ~> RunFollowed

\* A run over blank data has ended: one banner, several reports, no "OK!".
C13_Witness ==
    /\ Running /\ pc = "done"
    /\ dataKind = "blank"
    /\ visited[1] # LastSweep
    /\ mismatch /\ banners = 1 /\ reports > 1 /\ okays = 0

---------------------------------------------------------------------------
(* Claims about readFile and testSlope together                            *)

\* testSlope was called as testSlopes calls it: from the anchor of the type to
\* the sweep point.
AnchorCall == call = SweepCall(call.type, call.testX, call.testY)

\* The scanlines readFile fills in lines[sweepY][sweepX] for a record of its loop.
FilledScanlines(type, sweepY) ==
    ReadScanRange(type, sweepY)[1] .. ReadScanRange(type, sweepY)[2]

\* C14: Harness compares only loaded scanlines. With the anchor test() selects
\* for the type, every scanline at which testSlope reads the entry of the sweep
\* point lies in the scanline range readFile filled for the record of that point.
C14_LoadedScanlines ==
    AnchorCall => scanned \subseteq FilledScanlines(call.type, call.testY)

\* A bottom-left capture: the edge from (69, 49) down to the anchor (0, 192) has
\* been compared on the scanlines 49..191.
C14_Witness ==
    /\ AnchorCall /\ pc = "return"
    /\ call.type = 2 /\ call.testX = 69 /\ call.testY = 49
    /\ scanned = 49 .. (HEIGHT - 1)

\* The table of a capture: lines[192 + 1][256 + 1], each with spans[192].
TableRows == 0 .. HEIGHT
TableCols == 0 .. WIDTH
TableScanlines == 0 .. (HEIGHT - 1)

\* C15: Table indices stay in bounds. Every lines[a][b].spans[c] that readFile
\* writes and that testSlope reads has a in 0..192, b in 0..256 and c in 0..191;
\* testSlope never reads scanline 192, not even for an edge whose y1 became 193.
C15_TableIndices ==
    /\ lastBlock # NoBlock =>
          /\ lastBlock.row \in TableRows
          /\ lastBlock.col \in TableCols
          /\ (lastBlock.from .. lastBlock.to) \subseteq TableScanlines
    /\ \A e \in DOMAIN lines :
          /\ e[1] \in TableRows
          /\ e[2] \in TableCols
          /\ DOMAIN lines[e] \subseteq TableScanlines
    /\ scanned # {} =>
          /\ call.testY \in TableRows
          /\ call.testX \in TableCols
          /\ scanned \subseteq TableScanlines

\* main() tests a bottom-left capture it loaded. The horizontal edge along the
\* bottom, (0,192)-(256,192): y1 became 193, the loop reached y = 192 and left
\* without a comparison.
C15_Witness ==
    /\ mainpc = "test" /\ dataKind = "loaded"
    /\ pc = "return"
    /\ call.testX = WIDTH /\ call.testY = HEIGHT /\ call.type = 2
    /\ in_y0 = HEIGHT /\ in_y1 = HEIGHT + 1
    /\ y = HEIGHT
    /\ scanned = {}

---------------------------------------------------------------------------
(* Further claims about Slope                                              *)

PositiveXMajor == pc # "new" /\ IsXMajor(slope) /\ ~IsNegative(slope)

\* C16: Gaps are at most one pixel and spans never overlap. For a positive
\* X-major slope and consecutive scanlines y, y+1 of the edge, the next span
\* starts right after the last column of the span of y or one column later.
C16_GapAtMostOne ==
    (InGrid /\ PositiveXMajor /\ pc = "query" /\ y + 1 < BottomY) =>
        /\ XEnd(slope, y) = Sar32(endX, kFracBits)
        /\ Sar32(endX, kFracBits) + 1 <= XStart(slope, y + 1)
        /\ XStart(slope, y + 1) <= Sar32(endX, kFracBits) + 2

\* Both cases on one slope, (0,0)-(69,49): a scanline followed by a one-pixel
\* gap, reached after a scanline followed by none.
C16_Witness ==
    /\ in_x0 = 0 /\ in_y0 = 0 /\ in_x1 = 69 /\ in_y1 = 49
    /\ PositiveXMajor /\ pc = "query" /\ y >= 1 /\ y + 1 < BottomY
    /\ XStart(slope, y + 1) = Sar32(endX, kFracBits) + 2
    /\ XStart(slope, y) = XEnd(slope, y - 1) + 1

---------------------------------------------------------------------------
(* Further claims about testSlope                                          *)

\* The locals in body are those of a scanline that was compared: the loop went
\* on from it (or ended after it) and did not leave by the break.
JustCompared ==
    /\ (y - 1) \in scanned
    /\ pc = "loop" \/ (pc = "return" /\ y >= in_y1)

\* C17: Compared columns fit the screen. From each corner anchor to every sweep
\* point, a scanline that is compared has, after the swap for negative slopes,
\* 0 <= startScrX <= endScrX <= 255 and both columns between the X coordinates
\* of the two endpoints.
C17_ComparedColumns ==
    (AnchorCall /\ JustCompared) =>
        /\ 0 <= body.startScrX
        /\ body.startScrX <= body.endScrX
        /\ body.endScrX <= WIDTH - 1
        /\ Min(in_x0, in_x1) <= body.startScrX
        /\ body.endScrX <= Max(in_x0, in_x1)

\* The top-right anchor: the first scanline of the negative slope from (256,0)
\* to (187,49) was compared, with 255 as its last column, and a later one with
\* two columns.
C17_Witness ==
    /\ AnchorCall /\ JustCompared
    /\ call.type = 1 /\ call.testX = 187 /\ call.testY = 49
    /\ IsNegative(slope)
    /\ XStart(slope, 0) = WIDTH - 1
    /\ 0 \in scanned
    /\ body.startScrX < body.endScrX
    /\ body.startScrX = XEnd(slope, y - 1)

====
